---- MODULE Spec2Model ----
(***************************************************************************)
(* OHLCV bar aggregation and incremental update of the bar store:          *)
(*   vnpy_chartwizard/preprocess_daily_data.py  (BarDataPreprocessor)      *)
(*   vnpy_datamanager/engine.py                 (ManagerEngine)            *)
(*                                                                         *)
(* The store is the SQLite file both classes open: table dbbardata, keyed  *)
(* by (symbol, exchange, interval, datetime), and table dbbaroverview.     *)
(* Datetimes are TEXT in the store and are compared as text by SQLite, so  *)
(* a datetime text is modelled with its separator character.               *)
(***************************************************************************)
EXTENDS Integers, Sequences, FiniteSets, TLC

\* ------------------------------------------------------------------ bounds
\* calendar dates 1..MaxDay
MaxDay == 2
\* at most MaxBars 1-minute rows per (symbol, exchange)
MaxBars == 3

\* wall-clock times of the modelled 1-minute bars, in minutes after midnight:
\* 00:10, 14:30, 14:59, 15:00, 21:00
TimesOfDay == {10, 870, 899, 900, 1260}

\* OHLCV values an imported 1-minute bar can carry
Shapes ==
  { [open_price |-> 1, high_price |-> 3, low_price |-> 1, close_price |-> 2, volume |-> 1],
    [open_price |-> 2, high_price |-> 4, low_price |-> 0, close_price |-> 3, volume |-> 2] }

Intervals == {"1h", "d"}

\* symbols in a batch
MaxSymbols == 3

\* the source files of the update pipeline
MaxFiles == 2

\* the pipeline runs of a behaviour
MaxRuns == 2

\* task threads a BacktesterEngine starts
MaxThreads == 3

\* 32-byte records in a .lc1 file, and the trading dates they carry
MaxRecords == 4
MaxDate == 3

\* wall-clock times of the modelled records, in minutes after midnight: 02:59,
\* 03:00, 03:01, 14:58, 14:59, 15:00, 21:00
RecordTimes == {179, 180, 181, 898, 899, 900, 1260}

\* frames the interpreter allows a recursion (sys.getrecursionlimit(), 1000 by
\* default)
RecursionLimit == 3

\* --------------------------------------------------------- program constants
\* '14:59:00', the day-close time of the daily aggregation
DayEndCutoff == 899
\* ' 15:00:00', the time stamped on a daily bar closed by the cutoff
DailyCloseStamp == 900
\* daily_high = 0
DailyHighInit == 0
\* daily_low = 999999999999999; TLC integers are 32 bits wide, and every price of
\* Shapes is below this value as it is below the program's
DailyLowInit == 999999999

\* Python's None / SQL NULL
None == [none |-> TRUE]

Max(a, b) == IF a >= b THEN a ELSE b
Min(a, b) == IF a <= b THEN a ELSE b

\* ------------------------------------------------------------ datetime text
\* dt.isoformat(' ', 'seconds'): 'YYYY-MM-DD HH:MM:SS', the form rows are stored in
isoformat_space(dt) == [garbled |-> FALSE, date |-> dt.date, sep |-> " ", tod |-> dt.tod]

\* mutant of isoformat: the text carries the separator rows are stored with
isoformat_SpaceSeparated(dt) == [garbled |-> FALSE, date |-> dt.date, sep |-> " ", tod |-> dt.tod]

\* dt.isoformat(): 'YYYY-MM-DDTHH:MM:SS'
isoformat(dt) == [garbled |-> FALSE, date |-> dt.date, sep |-> "T", tod |-> dt.tod]

\* a datetime column whose text is no ISO datetime (it sorts after every
\* datetime of the model, as 'garbage' sorts after '2024-...')
GarbledText == [garbled |-> TRUE, date |-> 0, sep |-> "?", tod |-> 0]

\* datetime.fromisoformat(text.replace(' ', 'T')): ok = FALSE is ValueError
fromisoformat(text) ==
  IF text.garbled THEN [ok |-> FALSE, date |-> 0, tod |-> 0]
  ELSE [ok |-> TRUE, date |-> text.date, tod |-> text.tod]

\* rank of the separator character in SQLite's byte order: ' ' (0x20) < 'T' (0x54)
SepRank(sep) == IF sep = " " THEN 0 ELSE 1

\* a < b for two TEXT values of the datetime column (BINARY collation); dates and
\* times are zero-padded, so their text order is their numeric order
TextLess(a, b) ==
  IF a.garbled # b.garbled THEN b.garbled
  ELSE IF a.date # b.date THEN a.date < b.date
  ELSE IF a.sep # b.sep THEN SepRank(a.sep) < SepRank(b.sep)
  ELSE a.tod < b.tod

\* SQL MAX(datetime) / MIN(datetime) over a set of rows; NULL over no row
MaxDatetime(rows) ==
  IF rows = {} THEN None
  ELSE (CHOOSE r \in rows : \A q \in rows : ~TextLess(r.datetime, q.datetime)).datetime

MinDatetime(rows) ==
  IF rows = {} THEN None
  ELSE (CHOOSE r \in rows : \A q \in rows : ~TextLess(q.datetime, r.datetime)).datetime

\* ORDER BY datetime
RECURSIVE OrderByDatetime(_)
OrderByDatetime(rows) ==
  IF rows = {} THEN <<>>
  ELSE LET first == CHOOSE r \in rows : \A q \in rows : ~TextLess(q.datetime, r.datetime)
       IN  <<first>> \o OrderByDatetime(rows \ {first})

\* ------------------------------------------------- hourly fold (one pass)
HourlyInit ==
  [hourly_data |-> <<>>, hourly_open |-> 0, hourly_high |-> 0, hourly_low |-> DailyLowInit,
   hourly_close |-> 0, hourly_volume |-> 0, index |-> 0, current_hour |-> None,
   raised |-> "none"]

\* the dict appended to hourly_data for the hour st.current_hour
HourlyBar(st) ==
  [datetime |-> isoformat_space([date |-> st.current_hour.date,
                                 tod |-> st.current_hour.hour * 60]),
   volume |-> st.hourly_volume, turnover |-> 0, open_interest |-> 0,
   open_price |-> st.hourly_open, high_price |-> st.hourly_high,
   low_price |-> st.hourly_low, close_price |-> st.hourly_close]

\* mutant of HourlyStep: a later row of the hour does not move hourly_close
HourlyStep_KeepsFirstClose(st, row) ==
  LET dt == fromisoformat(row.datetime)
      hour_key == [date |-> dt.date, hour |-> dt.tod \div 60]
  IN  IF ~dt.ok THEN [st EXCEPT !.raised = "ValueError"]
      ELSE IF st.current_hour # hour_key
      THEN [hourly_data |-> IF st.index > 0 THEN Append(st.hourly_data, HourlyBar(st))
                            ELSE st.hourly_data,
            current_hour |-> hour_key,
            hourly_open |-> row.open_price, hourly_high |-> row.high_price,
            hourly_low |-> row.low_price, hourly_close |-> row.close_price,
            hourly_volume |-> row.volume, index |-> 1, raised |-> "none"]
      ELSE [st EXCEPT !.hourly_high = Max(row.high_price, @),
                      !.hourly_low = Min(row.low_price, @),
                      !.hourly_volume = @ + row.volume,
                      !.index = @ + 1]

\* the body of `for row in rows` of aggregate_hourly_data
HourlyStep(st, row) ==
  LET dt == fromisoformat(row.datetime)
      hour_key == [date |-> dt.date, hour |-> dt.tod \div 60]
  IN  IF ~dt.ok THEN [st EXCEPT !.raised = "ValueError"]
      ELSE IF st.current_hour # hour_key
      THEN [hourly_data |-> IF st.index > 0 THEN Append(st.hourly_data, HourlyBar(st))
                            ELSE st.hourly_data,
            current_hour |-> hour_key,
            hourly_open |-> row.open_price, hourly_high |-> row.high_price,
            hourly_low |-> row.low_price, hourly_close |-> row.close_price,
            hourly_volume |-> row.volume, index |-> 1, raised |-> "none"]
      ELSE [st EXCEPT !.hourly_high = Max(row.high_price, @),
                      !.hourly_low = Min(row.low_price, @),
                      !.hourly_close = row.close_price,
                      !.hourly_volume = @ + row.volume,
                      !.index = @ + 1]

RECURSIVE HourlyLoop(_, _, _)
HourlyLoop(rows, i, st) ==
  IF i > Len(rows) \/ st.raised # "none" THEN st
  ELSE HourlyLoop(rows, i + 1, HourlyStep(st, rows[i]))

\* mutant of HourlyFold: the last hour of the stream is not flushed
HourlyFold_DropsLastHour(rows) ==
  LET st == HourlyLoop(rows, 1, HourlyInit)
  IN  IF st.raised # "none" THEN [data |-> <<>>, raised |-> st.raised]
      ELSE [data |-> st.hourly_data, raised |-> "none"]

\* hourly_data after the loop and the flush of the last hour, or the exception
HourlyFold(rows) ==
  LET st == HourlyLoop(rows, 1, HourlyInit)
  IN  IF st.raised # "none" THEN [data |-> <<>>, raised |-> st.raised]
      ELSE IF st.index > 0 /\ st.current_hour # None
      THEN [data |-> Append(st.hourly_data, HourlyBar(st)), raised |-> "none"]
      ELSE [data |-> st.hourly_data, raised |-> "none"]

\* -------------------------------------------------- daily fold (one pass)
DailyInit ==
  [daily_data |-> <<>>, daily_open |-> 0, daily_high |-> DailyHighInit,
   daily_low |-> DailyLowInit, daily_close |-> 0, daily_volume |-> 0, index |-> 0,
   last_data |-> None, raised |-> "none"]

\* the dict appended to daily_data, stamped date + tod
DailyBar(st, date, tod) ==
  [datetime |-> isoformat_space([date |-> date, tod |-> tod]),
   volume |-> st.daily_volume, turnover |-> 0, open_interest |-> 0,
   open_price |-> st.daily_open, high_price |-> st.daily_high,
   low_price |-> st.daily_low, close_price |-> st.daily_close]

\* mutant of DailyStep: daily_open is taken from every row, not from the first
DailyStep_OpenFromEveryRow(st, row) ==
  LET dt == fromisoformat(row.datetime)
      acc == [st EXCEPT !.daily_open = row.open_price,
                        !.daily_high = Max(row.high_price, @),
                        !.daily_low = Min(row.low_price, @),
                        !.daily_close = row.close_price,
                        !.daily_volume = @ + row.volume,
                        !.index = @ + 1]
      d == [date |-> dt.date, tod |-> dt.tod, close_price |-> row.close_price]
  IN  IF ~dt.ok THEN [st EXCEPT !.raised = "ValueError"]
      ELSE IF dt.tod = DayEndCutoff
      THEN [acc EXCEPT !.daily_data = Append(@, DailyBar(acc, dt.date, DailyCloseStamp)),
                       !.daily_high = DailyHighInit,
                       !.daily_low = DailyLowInit,
                       !.daily_volume = 0,
                       !.index = 0,
                       !.last_data = d]
      ELSE [acc EXCEPT !.last_data = d]

\* the body of `for row in rows` of aggregate_daily_data
DailyStep(st, row) ==
  LET dt == fromisoformat(row.datetime)
      acc == [st EXCEPT !.daily_open = IF st.index = 0 THEN row.open_price ELSE @,
                        !.daily_high = Max(row.high_price, @),
                        !.daily_low = Min(row.low_price, @),
                        !.daily_close = row.close_price,
                        !.daily_volume = @ + row.volume,
                        !.index = @ + 1]
      d == [date |-> dt.date, tod |-> dt.tod, close_price |-> row.close_price]
  IN  IF ~dt.ok THEN [st EXCEPT !.raised = "ValueError"]
      ELSE IF dt.tod = DayEndCutoff
      THEN [acc EXCEPT !.daily_data = Append(@, DailyBar(acc, dt.date, DailyCloseStamp)),
                       !.daily_high = DailyHighInit,
                       !.daily_low = DailyLowInit,
                       !.daily_volume = 0,
                       !.index = 0,
                       !.last_data = d]
      ELSE [acc EXCEPT !.last_data = d]

RECURSIVE DailyLoop(_, _, _)
DailyLoop(rows, i, st) ==
  IF i > Len(rows) \/ st.raised # "none" THEN st
  ELSE DailyLoop(rows, i + 1, DailyStep(st, rows[i]))

\* mutant of DailyFold: the last, unclosed day is not flushed
DailyFold_DropsPartialDay(rows) ==
  LET st == DailyLoop(rows, 1, DailyInit)
  IN  IF st.raised # "none" THEN [data |-> <<>>, raised |-> st.raised]
      ELSE [data |-> st.daily_data, raised |-> "none"]

\* daily_data after the loop and the flush of the last, unclosed day
DailyFold(rows) ==
  LET st == DailyLoop(rows, 1, DailyInit)
  IN  IF st.raised # "none" THEN [data |-> <<>>, raised |-> st.raised]
      ELSE IF st.index # 0 /\ (st.last_data = None \/ st.last_data.tod # DayEndCutoff)
      THEN [data |-> Append(st.daily_data,
                            DailyBar([st EXCEPT !.daily_close = st.last_data.close_price],
                                     st.last_data.date, st.last_data.tod)),
            raised |-> "none"]
      ELSE [data |-> st.daily_data, raised |-> "none"]

\* ------------------------------------------------------------ the bar store
\* One (symbol, exchange) key of the store: its '1m' rows, its '1h' and 'd' rows
\* and its dbbaroverview rows. A set of rows models the table: the unique index
\* on (symbol, exchange, interval, datetime) admits one row per datetime.
EmptyKey ==
  [minute |-> {}, target |-> [iv \in Intervals |-> {}],
   overview |-> [iv \in Intervals |-> None]]

\* a query that drops the "AND datetime > ?" condition
query_minute_bars_IgnoresStartTime(minute, start_time) ==
  OrderByDatetime(minute)

\* SELECT datetime, open_price, ... WHERE interval = '1m' [AND datetime > ?]
\* ORDER BY datetime; the parameter is start_time.isoformat()
query_minute_bars(minute, start_time) ==
  IF start_time = None THEN OrderByDatetime(minute)
  ELSE OrderByDatetime({r \in minute : TextLess(isoformat(start_time), r.datetime)})

\* SELECT MAX(datetime) of the interval, parsed; None when there is no row or the
\* text does not parse
get_last_aggregation_time(rows) ==
  LET result == MaxDatetime(rows)
  IN  IF result = None THEN None
      ELSE IF fromisoformat(result).ok
      THEN [date |-> fromisoformat(result).date, tod |-> fromisoformat(result).tod]
      ELSE None

\* two dicts of one batch carry the same datetime, or one carries the datetime
\* of a stored row: INSERT raises IntegrityError on the unique index
ViolatesUniqueIndex(rows, batch) ==
  \/ \E i, j \in 1..Len(batch) : i # j /\ batch[i].datetime = batch[j].datetime
  \/ \E i \in 1..Len(batch) : \E r \in rows : r.datetime = batch[i].datetime

BatchRows(batch) == {batch[i] : i \in 1..Len(batch)}

\* SELECT COUNT(*), MIN(datetime), MAX(datetime) and the upsert of dbbaroverview
RecomputeOverview(rows) ==
  [count |-> Cardinality(rows), start |-> MinDatetime(rows), end |-> MaxDatetime(rows)]

\* what one aggregation call leaves behind:
\*   rows, ov   the interval's rows and overview row after the call
\*   locked     whether a connection that was never closed holds the write lock
\*   raised     the exception that left the call ("none": it returned ret)
\*   branch     the strategy chosen from existing_count and the flags
\*   fed        the 1-minute rows fetched, batch the dicts built from them
Outcome(rows, ov, locked, raised, ret, branch, start_time, fed, batch) ==
  [rows |-> rows, ov |-> ov, locked |-> locked, raised |-> raised, ret |-> ret,
   branch |-> branch, start_time |-> start_time, fed |-> fed, batch |-> batch]

\* mutant of PreprocessorBranch: force_update is honoured only when incremental
\* is off as well
PreprocessorBranch_ForceNeedsFull(rows, force_update, incremental) ==
  IF Cardinality(rows) > 0 /\ ~force_update /\ incremental
  THEN IF get_last_aggregation_time(rows) # None THEN "Incremental" ELSE "FallbackFresh"
  ELSE IF Cardinality(rows) > 0 /\ force_update /\ ~incremental THEN "ForceUpdate"
  ELSE IF Cardinality(rows) = 0 THEN "Fresh"
  ELSE "Regenerate"

\* the strategy of BarDataPreprocessor.aggregate_*_data
PreprocessorBranch(rows, force_update, incremental) ==
  IF Cardinality(rows) > 0 /\ ~force_update /\ incremental
  THEN IF get_last_aggregation_time(rows) # None THEN "Incremental" ELSE "FallbackFresh"
  ELSE IF Cardinality(rows) > 0 /\ force_update THEN "ForceUpdate"
  ELSE IF Cardinality(rows) = 0 THEN "Fresh"
  ELSE "Regenerate"

\* a DELETE that removes nothing
delete_bars_KeepsRows(rows) == rows

\* DELETE FROM dbbardata WHERE ... interval = ?, committed
delete_bars(rows) == {}

\* hourly_data / daily_data built from the fetched rows
FoldFor(interval, fed) == IF interval = "1h" THEN HourlyFold(fed) ELSE DailyFold(fed)

\* BarDataPreprocessor.aggregate_hourly_data / aggregate_daily_data on one key.
\* No exception is caught and conn.close() is reached only on a normal return:
\* a call that raises inside executemany leaves its connection open with the
\* write transaction begun, and every later write to the file fails with
\* "database is locked" until that connection is collected.
PreprocessorAggregate(interval, key, locked, force_update, incremental) ==
  LET rows == key.target[interval]
      ov == key.overview[interval]
      branch == PreprocessorBranch(rows, force_update, incremental)
      start_time == IF branch = "Incremental" THEN get_last_aggregation_time(rows) ELSE None
      kept == IF branch = "ForceUpdate" THEN delete_bars(rows) ELSE rows
      fed == query_minute_bars(key.minute, start_time)
      fold == FoldFor(interval, fed)
      batch == fold.data
  IN  IF branch = "ForceUpdate" /\ locked
      THEN Outcome(rows, ov, locked, "OperationalError", 0, branch, start_time, <<>>, <<>>)
      ELSE IF fed = <<>>
      THEN Outcome(kept, ov, locked, "none", 0, branch, start_time, fed, <<>>)
      ELSE IF fold.raised # "none"
      THEN Outcome(kept, ov, locked, fold.raised, 0, branch, start_time, fed, <<>>)
      ELSE IF batch = <<>>
      THEN Outcome(kept, ov, locked, "none", 0, branch, start_time, fed, batch)
      ELSE IF locked
      THEN Outcome(kept, ov, locked, "OperationalError", 0, branch, start_time, fed, batch)
      ELSE IF ViolatesUniqueIndex(kept, batch)
      THEN Outcome(kept, ov, TRUE, "IntegrityError", 0, branch, start_time, fed, batch)
      ELSE Outcome(kept \cup BatchRows(batch), RecomputeOverview(kept \cup BatchRows(batch)),
                   locked, "none", Len(batch), branch, start_time, fed, batch)

aggregate_hourly_data(key, locked, force_update, incremental) ==
  PreprocessorAggregate("1h", key, locked, force_update, incremental)

aggregate_daily_data(key, locked, force_update, incremental) ==
  PreprocessorAggregate("d", key, locked, force_update, incremental)

\* the key after a call on `interval` with outcome out
KeyAfter(key, interval, out) ==
  [key EXCEPT !.target[interval] = out.rows, !.overview[interval] = out.ov]

\* a try block that regenerates existing rows whether or not force_update is set
ManagerAttempt_NoSkip(interval, key, locked, force_update) ==
  LET rows == key.target[interval]
      ov == key.overview[interval]
      regenerate == rows # {} /\ TRUE
      branch == IF regenerate THEN "Regenerate" ELSE IF rows = {} THEN "Fresh" ELSE "Skip"
      kept == IF regenerate THEN delete_bars(rows) ELSE rows
      fed == query_minute_bars(key.minute, None)
      fold == FoldFor(interval, fed)
      batch == fold.data
  IN  IF regenerate /\ locked
      THEN Outcome(rows, ov, locked, "OperationalError", 0, branch, None, <<>>, <<>>)
      ELSE IF branch = "Skip"
      THEN Outcome(rows, ov, locked, "none", 0, branch, None, <<>>, <<>>)
      ELSE IF fed = <<>>
      THEN Outcome(kept, ov, locked, "none", 0, branch, None, fed, <<>>)
      ELSE IF fold.raised # "none"
      THEN Outcome(kept, ov, locked, fold.raised, 0, branch, None, fed, <<>>)
      ELSE IF batch = <<>>
      THEN Outcome(kept, ov, locked, "none", 0, branch, None, fed, batch)
      ELSE IF locked
      THEN Outcome(kept, ov, locked, "OperationalError", 0, branch, None, fed, batch)
      ELSE IF ViolatesUniqueIndex(kept, batch)
      THEN Outcome(kept, ov, locked, "IntegrityError", 0, branch, None, fed, batch)
      ELSE Outcome(kept \cup BatchRows(batch), RecomputeOverview(kept \cup BatchRows(batch)),
                   locked, "none", Len(batch), branch, None, fed, batch)

\* the try block of ManagerEngine._aggregate_hourly_data / _aggregate_daily_data
\* on one key: existing rows are skipped unless force_update deletes them first;
\* `raised` is the exception that ends the block
ManagerAttempt(interval, key, locked, force_update) ==
  LET rows == key.target[interval]
      ov == key.overview[interval]
      regenerate == rows # {} /\ force_update
      branch == IF regenerate THEN "Regenerate" ELSE IF rows = {} THEN "Fresh" ELSE "Skip"
      kept == IF regenerate THEN delete_bars(rows) ELSE rows
      fed == query_minute_bars(key.minute, None)
      fold == FoldFor(interval, fed)
      batch == fold.data
  IN  IF regenerate /\ locked
      THEN Outcome(rows, ov, locked, "OperationalError", 0, branch, None, <<>>, <<>>)
      ELSE IF branch = "Skip"
      THEN Outcome(rows, ov, locked, "none", 0, branch, None, <<>>, <<>>)
      ELSE IF fed = <<>>
      THEN Outcome(kept, ov, locked, "none", 0, branch, None, fed, <<>>)
      ELSE IF fold.raised # "none"
      THEN Outcome(kept, ov, locked, fold.raised, 0, branch, None, fed, <<>>)
      ELSE IF batch = <<>>
      THEN Outcome(kept, ov, locked, "none", 0, branch, None, fed, batch)
      ELSE IF locked
      THEN Outcome(kept, ov, locked, "OperationalError", 0, branch, None, fed, batch)
      ELSE IF ViolatesUniqueIndex(kept, batch)
      THEN Outcome(kept, ov, locked, "IntegrityError", 0, branch, None, fed, batch)
      ELSE Outcome(kept \cup BatchRows(batch), RecomputeOverview(kept \cup BatchRows(batch)),
                   locked, "none", Len(batch), branch, None, fed, batch)

\* ManagerEngine._aggregate_hourly_data / _aggregate_daily_data on one key:
\* every exception of the try block is caught, the connection is closed (its
\* open transaction rolled back) and 0 returned
ManagerAggregate(interval, key, locked, force_update) ==
  LET out == ManagerAttempt(interval, key, locked, force_update)
  IN  [out EXCEPT !.raised = "none"]

\* ----------------------------------------------------------------- state
VARIABLES
  store,     \* the rows of one (symbol, exchange) key
  interval,  \* the target interval whose aggregation the behaviour follows
  imported,  \* how many 1-minute rows were imported so far
  locked,    \* a leaked connection holds the write lock of the database file
  last,      \* the last operation on the store and, for an aggregation, its outcome
  run,       \* a multi-symbol batch: its keys, its symbol list and its progress
  pipe       \* the update pipeline: source files, converted files, status document

vars == <<store, interval, imported, locked, last, run, pipe>>

NoOutcome == Outcome({}, None, FALSE, "none", 0, "none", None, <<>>, <<>>)

LastOf(op, force_update, incremental, out) ==
  [op |-> op, force_update |-> force_update,
   incremental |-> incremental, raised |-> out.raised, ret |-> out.ret,
   branch |-> out.branch, start_time |-> out.start_time, fed |-> out.fed,
   batch |-> out.batch, intervals |-> <<>>]

\* no pipeline is set up
NoPipe == [disk |-> {}]

\* no batch is running
NoRun ==
  [pc |-> "off", variant |-> "none", force_update |-> FALSE, db |-> <<>>,
   symbols |-> <<>>, idx |-> 0, step |-> "1h", attempted |-> <<>>, holder |-> 0]

\* the rows of '1h' and of 'd' are disjoint and so are their overview rows: a
\* behaviour follows the aggregation of one of the two intervals
Init ==
  /\ store = EmptyKey
  /\ interval \in Intervals
  /\ imported = 0
  /\ locked = FALSE
  /\ last = LastOf("init", FALSE, FALSE, NoOutcome)
  /\ run = NoRun
  /\ pipe = NoPipe

\* ManagerEngine.import_data_from_csv appends a newer 1-minute bar; while a
\* leaked connection holds the write lock the save fails and the file is unchanged
ImportMinuteBar ==
  \E d \in 1..MaxDay, t \in TimesOfDay, s \in Shapes :
    LET text == isoformat_space([date |-> d, tod |-> t])
    IN  /\ imported < MaxBars
        /\ ~locked
        /\ \A r \in store.minute : TextLess(r.datetime, text)
        /\ store' = [store EXCEPT !.minute = @ \cup {[datetime |-> text] @@ s}]
        /\ imported' = imported + 1
        /\ last' = LastOf("import", FALSE, FALSE, NoOutcome)
        /\ UNCHANGED <<interval, locked, run, pipe>>

\* ManagerEngine.delete_bar_data(symbol, exchange, Interval.MINUTE)
DeleteMinuteBars ==
  /\ store.minute # {}
  /\ ~locked
  /\ store' = [store EXCEPT !.minute = {}]
  /\ last' = LastOf("delete", FALSE, FALSE, NoOutcome)
  /\ UNCHANGED <<interval, imported, locked, run, pipe>>

\* the flags process_symbol passes: incremental = not force_update
AggregateHourly ==
  /\ interval = "1h"
  /\ \E force_update \in BOOLEAN :
       \E out \in {aggregate_hourly_data(store, locked, force_update, ~force_update)} :
         /\ store' = KeyAfter(store, "1h", out)
         /\ locked' = out.locked
         /\ last' = LastOf("aggregate", force_update, ~force_update, out)
  /\ UNCHANGED <<interval, imported, run, pipe>>

AggregateDaily ==
  /\ interval = "d"
  /\ \E force_update \in BOOLEAN :
       \E out \in {aggregate_daily_data(store, locked, force_update, ~force_update)} :
         /\ store' = KeyAfter(store, "d", out)
         /\ locked' = out.locked
         /\ last' = LastOf("aggregate", force_update, ~force_update, out)
  /\ UNCHANGED <<interval, imported, run, pipe>>

\* the datetime text of the interval's latest row is damaged in the file
CorruptLastTimestamp ==
  LET rows == store.target[interval]
      top == CHOOSE r \in rows : r.datetime = MaxDatetime(rows)
  IN  /\ rows # {}
      /\ ~MaxDatetime(rows).garbled
      /\ store' = [store EXCEPT !.target[interval] =
                     (rows \ {top}) \cup {[top EXCEPT !.datetime = GarbledText]}]
      /\ last' = LastOf("corrupt", FALSE, FALSE, NoOutcome)
      /\ UNCHANGED <<interval, imported, locked, run, pipe>>

\* the leaked connection is collected (or the process ends): its transaction is
\* rolled back and the write lock released
CollectConnection ==
  /\ locked
  /\ locked' = FALSE
  /\ run' = [run EXCEPT !.holder = 0]
  /\ UNCHANGED <<store, interval, imported, last, pipe>>

\* imports and aggregation runs on a store whose datetime texts are well-formed
Next ==
  \/ ImportMinuteBar
  \/ AggregateHourly
  \/ AggregateDaily
  \/ CollectConnection

Spec == Init /\ [][Next]_vars

\* the same, with the 1-minute rows of the key deleted at any time
NextDeleted ==
  \/ ImportMinuteBar
  \/ DeleteMinuteBars
  \/ AggregateHourly
  \/ AggregateDaily
  \/ CollectConnection

SpecDeleted == Init /\ [][NextDeleted]_vars

\* the same as Spec, with the latest target row damaged at any time
NextDamaged ==
  \/ ImportMinuteBar
  \/ AggregateHourly
  \/ AggregateDaily
  \/ CorruptLastTimestamp
  \/ CollectConnection

SpecDamaged == Init /\ [][NextDamaged]_vars

\* ------------------------------------------------------ multi-symbol batch
\* the symbols of the file, numbered in the order of ORDER BY symbol
Symbols == 1..MaxSymbols

\* a 1-minute row of day 1
BatchRow(tod) ==
  [datetime |-> isoformat_space([date |-> 1, tod |-> tod]),
   open_price |-> 1, high_price |-> 3, low_price |-> 1, close_price |-> 2, volume |-> 1]

\* 1-minute histories of a symbol: none, a day ending at its cutoff, and a day
\* with a bar after its cutoff
BatchHistories ==
  { {}, {BatchRow(870), BatchRow(899)}, {BatchRow(899), BatchRow(900)} }

\* process_symbol on one key of an unlocked file, the leaked connection collected
\* before the next call
ProcessedOnce(key) ==
  LET h == KeyAfter(key, "1h", aggregate_hourly_data(key, FALSE, FALSE, TRUE))
  IN  KeyAfter(h, "d", aggregate_daily_data(h, FALSE, FALSE, TRUE))

\* the keys a symbol can have when a batch starts: imported only, or imported
\* and processed by an earlier run
BatchKeys ==
  LET imported_only == {[EmptyKey EXCEPT !.minute = m] : m \in BatchHistories}
  IN  imported_only \cup {ProcessedOnce(k) : k \in imported_only}

\* get_available_symbols / _get_available_symbols: the symbols that have
\* 1-minute rows, ORDER BY symbol
get_available_symbols(db) ==
  SelectSeq([s \in Symbols |-> s], LAMBDA s : db[s].minute # {})

InitBatch ==
  /\ store = EmptyKey
  /\ interval = "d"
  /\ imported = 0
  /\ locked = FALSE
  /\ last = LastOf("init", FALSE, FALSE, NoOutcome)
  /\ \E db \in [Symbols -> BatchKeys] : run = [NoRun EXCEPT !.pc = "idle", !.db = db]
  /\ pipe = NoPipe

\* process_all_symbols(force_update) / _auto_aggregate_data(force_update) up to
\* the loop: the symbol list is read once
StartBatch ==
  \E variant \in {"preprocessor", "manager"}, force_update \in BOOLEAN :
    /\ run.pc = "idle"
    /\ run' = [run EXCEPT !.pc = "loop", !.variant = variant,
                          !.force_update = force_update,
                          !.symbols = get_available_symbols(run.db),
                          !.idx = 1, !.step = "1h"]
    /\ UNCHANGED <<store, interval, imported, locked, last, pipe>>

\* what the loop records of one aggregation call
Attempt(symbol, step, out, holder) ==
  [symbol |-> symbol, interval |-> step, raised |-> out.raised, ret |-> out.ret,
   holder |-> holder]

\* the position after the call on `step`: the daily call of the same symbol, or
\* the hourly call of the next symbol
Advance(r, symbol, step, out, holder) ==
  [r EXCEPT !.db[symbol] = KeyAfter(r.db[symbol], step, out),
            !.attempted = Append(@, Attempt(symbol, step, out, r.holder)),
            !.holder = holder,
            !.step = IF step = "1h" THEN "d" ELSE "1h",
            !.idx = IF step = "1h" THEN @ ELSE @ + 1]

\* one pass of the loop body of process_symbol inside process_all_symbols: the
\* call for the next interval of the current symbol; an exception is caught by
\* process_symbol and the loop goes on
ProcessSymbolInterval ==
  /\ run.pc = "loop" /\ run.variant = "preprocessor"
  /\ run.idx <= Len(run.symbols)
  /\ \E out \in {PreprocessorAggregate(run.step, run.db[run.symbols[run.idx]], locked,
                                        run.force_update, ~run.force_update)} :
       LET symbol == run.symbols[run.idx]
           holder == IF out.locked /\ ~locked THEN symbol ELSE run.holder
       IN  /\ run' = Advance(run, symbol, run.step, out, holder)
           /\ locked' = out.locked
  /\ UNCHANGED <<store, interval, imported, last, pipe>>

\* the same for _auto_aggregate_data: _aggregate_hourly_data then
\* _aggregate_daily_data of the current symbol
AutoAggregateInterval ==
  /\ run.pc = "loop" /\ run.variant = "manager"
  /\ run.idx <= Len(run.symbols)
  /\ \E out \in {ManagerAggregate(run.step, run.db[run.symbols[run.idx]], locked,
                                   run.force_update)} :
       /\ run' = Advance(run, run.symbols[run.idx], run.step, out, run.holder)
       /\ locked' = out.locked
  /\ UNCHANGED <<store, interval, imported, last, pipe>>

\* the loop is exhausted: the totals are reported and the batch returns
FinishBatch ==
  /\ run.pc = "loop"
  /\ run.idx > Len(run.symbols)
  /\ run' = [run EXCEPT !.pc = "done"]
  /\ UNCHANGED <<store, interval, imported, locked, last, pipe>>

NextBatch ==
  \/ StartBatch
  \/ ProcessSymbolInterval
  \/ AutoAggregateInterval
  \/ FinishBatch
  \/ CollectConnection

SpecBatch == InitBatch /\ [][NextBatch]_vars

\* ------------------------------------------------- a bad 1-minute row
\* a 1-minute row of the key whose datetime text is no ISO datetime: the text is
\* only parsed when the row is aggregated (datetime.fromisoformat in the loop)
CorruptMinuteRow ==
  \E r \in store.minute :
    /\ ~locked
    /\ \A q \in store.minute : ~q.datetime.garbled
    /\ store' = [store EXCEPT !.minute = (@ \ {r}) \cup {[r EXCEPT !.datetime = GarbledText]}]
    /\ last' = LastOf("corrupt", FALSE, FALSE, NoOutcome)
    /\ UNCHANGED <<interval, imported, locked, run, pipe>>

NextBadRow ==
  \/ ImportMinuteBar
  \/ CorruptMinuteRow
  \/ AggregateHourly
  \/ AggregateDaily
  \/ CollectConnection

SpecBadRow == Init /\ [][NextBadRow]_vars

\* --------------------------------------------------------- process_symbol
\* interval names a caller can pass to process_symbol
IntervalNames == {"1h", "1D", "5m"}

\* str.lower() on the names of IntervalNames
lower(name) == IF name = "1D" THEN "1d" ELSE name

HourlyAliases == {"1h", "h", "hour", "hourly"}
DailyAliases == {"1d", "d", "day", "daily"}

\* the interval lists of the model: one or two names
IntervalLists ==
  {<<a>> : a \in IntervalNames} \cup {<<a, b>> : a \in IntervalNames, b \in IntervalNames}

\* `for interval in intervals` of process_symbol from position i on: an
\* unsupported name is reported and skipped, an exception of a call is caught
\* and the loop goes on; the result is the key, the lock and total_processed
RECURSIVE ProcessIntervals(_, _, _, _, _, _)
ProcessIntervals(key, lock, intervals, i, force_update, total) ==
  IF i > Len(intervals) THEN [key |-> key, locked |-> lock, total |-> total]
  ELSE LET name == lower(intervals[i])
           iv == IF name \in HourlyAliases THEN "1h"
                 ELSE IF name \in DailyAliases THEN "d" ELSE "unsupported"
           out == PreprocessorAggregate(iv, key, lock, force_update, ~force_update)
       IN  IF iv = "unsupported"
           THEN ProcessIntervals(key, lock, intervals, i + 1, force_update, total)
           ELSE ProcessIntervals(KeyAfter(key, iv, out), out.locked, intervals, i + 1,
                                 force_update,
                                 IF out.raised = "none" THEN total + out.ret ELSE total)

\* BarDataPreprocessor.process_symbol(symbol, exchange, intervals, force_update):
\* it always returns total_processed
process_symbol(key, lock, intervals, force_update) ==
  ProcessIntervals(key, lock, intervals, 1, force_update, 0)

ProcessSymbol ==
  \E intervals \in IntervalLists, force_update \in BOOLEAN :
    \E res \in {process_symbol(store, locked, intervals, force_update)} :
      /\ store' = res.key
      /\ locked' = res.locked
      /\ last' = [LastOf("process", force_update, ~force_update, NoOutcome)
                    EXCEPT !.ret = res.total, !.intervals = intervals]
      /\ UNCHANGED <<interval, imported, run, pipe>>

\* process_symbol is called on a key that was imported, or imported and
\* processed before
InitProcess ==
  /\ store \in BatchKeys
  /\ interval = "d"
  /\ imported = 0
  /\ locked = FALSE
  /\ last = LastOf("init", FALSE, FALSE, NoOutcome)
  /\ run = NoRun
  /\ pipe = NoPipe

NextProcess ==
  \/ ProcessSymbol
  \/ CollectConnection

SpecProcess == InitProcess /\ [][NextProcess]_vars

\* ------------------------------------------- ManagerEngine on one key
\* ManagerEngine._aggregate_hourly_data(db_path, symbol, exchange, force_update)
ManagerHourly ==
  /\ interval = "1h"
  /\ \E force_update \in BOOLEAN :
       \E out \in {ManagerAggregate("1h", store, locked, force_update)} :
         /\ store' = KeyAfter(store, "1h", out)
         /\ last' = LastOf("manager", force_update, FALSE, out)
  /\ UNCHANGED <<interval, imported, locked, run, pipe>>

\* ManagerEngine._aggregate_daily_data(db_path, symbol, exchange, force_update)
ManagerDaily ==
  /\ interval = "d"
  /\ \E force_update \in BOOLEAN :
       \E out \in {ManagerAggregate("d", store, locked, force_update)} :
         /\ store' = KeyAfter(store, "d", out)
         /\ last' = LastOf("manager", force_update, FALSE, out)
  /\ UNCHANGED <<interval, imported, locked, run, pipe>>

NextManager ==
  \/ ImportMinuteBar
  \/ ManagerHourly
  \/ ManagerDaily

SpecManager == Init /\ [][NextManager]_vars

\* ------------------------------------------------- prices of any sign
\* OHLCV values with prices below zero: the import passes prices through
\* unvalidated
SignedShapes ==
  Shapes \cup
  { [open_price |-> -2, high_price |-> -1, low_price |-> -3, close_price |-> -2, volume |-> 1] }

\* ManagerEngine.import_data_from_csv appends a newer 1-minute bar of any price
ImportSignedBar ==
  \E d \in 1..MaxDay, t \in TimesOfDay, s \in SignedShapes :
    LET text == isoformat_space([date |-> d, tod |-> t])
    IN  /\ imported < MaxBars
        /\ ~locked
        /\ \A r \in store.minute : TextLess(r.datetime, text)
        /\ store' = [store EXCEPT !.minute = @ \cup {[datetime |-> text] @@ s}]
        /\ imported' = imported + 1
        /\ last' = LastOf("import", FALSE, FALSE, NoOutcome)
        /\ UNCHANGED <<interval, locked, run, pipe>>

NextSigned ==
  \/ ImportSignedBar
  \/ AggregateHourly
  \/ AggregateDaily
  \/ CollectConnection

SpecSigned == Init /\ [][NextSigned]_vars

\* ------------------------------------------------------ the update pipeline
\* the .lc1 files of source_dir, numbered in the order of their paths; file f
\* holds the 1-minute bars of contract f
Files == 1..MaxFiles

\* the bars of a source file: odd files hold a day ending at its cutoff, even
\* files a day with a bar after its cutoff
FileHistory(f) ==
  IF f % 2 = 1 THEN {BatchRow(870), BatchRow(899)} ELSE {BatchRow(899), BatchRow(900)}

\* an argument that is given, as opposed to None
Given(x) == [none |-> FALSE, value |-> x]

\* datetime.isoformat() of the wall clock at tick t, as stored in the document
now_isoformat(t) == [isotime |-> t]

\* the document _ensure_status_file writes when the status file does not exist
DefaultStatus ==
  [last_update |-> None, contracts |-> [c \in Files |-> None], processed_files |-> <<>>]

\* file_path in status["processed_files"]
is_file_processed(status, file_path) ==
  \E i \in 1..Len(status.processed_files) : status.processed_files[i] = file_path

\* an update that replaces the list by the new entry
update_status_ReplacesList(status, contract, file_path, last_update, now) ==
  LET s1 == IF last_update # None
            THEN [status EXCEPT !.last_update = now_isoformat(last_update.value)] ELSE status
      s2 == IF contract # None
            THEN [s1 EXCEPT !.contracts[contract.value] = now_isoformat(now)] ELSE s1
  IN  IF file_path # None /\ ~is_file_processed(s2, file_path.value)
      THEN [s2 EXCEPT !.processed_files = <<file_path.value>>]
      ELSE s2

\* DataUpdateScheduler.update_status: each argument that is given updates its
\* part of the document, which is then written back
update_status(status, contract, file_path, last_update, now) ==
  LET s1 == IF last_update # None
            THEN [status EXCEPT !.last_update = now_isoformat(last_update.value)] ELSE status
      s2 == IF contract # None
            THEN [s1 EXCEPT !.contracts[contract.value] = now_isoformat(now)] ELSE s1
  IN  IF file_path # None /\ ~is_file_processed(s2, file_path.value)
      THEN [s2 EXCEPT !.processed_files = Append(@, file_path.value)]
      ELSE s2

\* DataUpdateScheduler.get_pending_files: os.walk of source_dir, the '.lc1'
\* files that are not processed, sorted
get_pending_files(disk, status) ==
  SelectSeq([f \in Files |-> f],
            LAMBDA f : f \in disk /\ ~is_file_processed(status, f))

\* the files a sequence of paths names
PathSet(paths) == {paths[i] : i \in 1..Len(paths)}

\* the loop of _process_new_files that marks the pending files that still exist
RECURSIVE MarkPending(_, _, _, _, _)
MarkPending(status, pending_files, disk, i, now) ==
  IF i > Len(pending_files) THEN status
  ELSE MarkPending(IF pending_files[i] \in disk
                   THEN update_status(status, None, Given(pending_files[i]), None, now)
                   ELSE status,
                   pending_files, disk, i + 1, now)

\* what a run of the converter can do to the files of source_dir: `written` are
\* the files whose *_vnpy_import.csv was written, `raised` tells that an
\* exception ended the loop (the file it ended on is not written)
ConverterOutcomes(disk) ==
  {[written |-> w, raised |-> b] : w \in SUBSET disk, b \in BOOLEAN} \
  {[written |-> disk, raised |-> TRUE]}

\* the converter is not run
NoConversion == [written |-> {}, raised |-> FALSE]

\* download_bar_data_batch around conver_all_with_vnpy_format: every '.lc1' file
\* of source_dir is converted, count is incremented twice per file, an exception
\* is caught and gives 0
download_bar_data_batch(disk, csv, conv) ==
  [csv |-> csv \cup conv.written,
   count |-> IF conv.raised THEN 0 ELSE 2 * Cardinality(disk)]

\* _process_new_files: nothing to do without a pending file; otherwise convert
\* the directory and mark every pending file that exists. `handed` are the
\* files the converter was run on, `converted` those it wrote a CSV for;
\* force_update is not read
_process_new_files(disk, csv, status, conv, force_update, now) ==
  LET pending_files == get_pending_files(disk, status)
  IN  IF pending_files = <<>>
      THEN [csv |-> csv, status |-> status, pending |-> pending_files,
            handed |-> {}, converted |-> {}, count |-> 0]
      ELSE LET res == download_bar_data_batch(disk, csv, conv)
           IN  [csv |-> res.csv,
                status |-> MarkPending(status, pending_files, disk, 1, now),
                pending |-> pending_files, handed |-> disk,
                converted |-> conv.written,
                count |-> res.count]

\* what the import of one converted file can do: succeed, be skipped because the
\* exchange of the contract is unknown, or raise after the delete of a forced run
ImportResults == {"ok", "skip", "raise"}

\* the results of the imports of a run over the converted files csv
ImportOutcomes(csv) ==
  {result \in [Files -> ImportResults] : \A f \in Files \ csv : result[f] = "ok"}

\* _auto_import_converted_data: every *_vnpy_import.csv of target_dir is
\* imported; a forced run deletes the 1-minute bars of the contract first; an
\* exception is caught and the loop continues
_auto_import_converted_data(db, csv, force_update, result) ==
  [db |-> [f \in Files |->
             IF f \notin csv \/ result[f] = "skip" THEN db[f]
             ELSE LET kept == IF force_update THEN {} ELSE db[f].minute
                  IN  IF result[f] = "ok"
                      THEN [db[f] EXCEPT !.minute = kept \cup FileHistory(f)]
                      ELSE [db[f] EXCEPT !.minute = kept]],
   imported |-> {f \in csv : result[f] = "ok"}]

\* the one element of a set of one element
TheOne(S) == CHOOSE x \in S : TRUE

\* the body of the loop of _auto_aggregate_data for one contract: hourly, then
\* daily on the rows the hourly call left; a call whose try block raises
\* catches the exception and returns 0, the rows are those the try block left
AggregateContract(key, force_update) ==
  TheOne({
    TheOne({
      [key |-> KeyAfter(KeyAfter(key, "1h", h), "d", d),
       hourly |-> IF h.raised = "none" THEN h.ret ELSE 0,
       daily |-> IF d.raised = "none" THEN d.ret ELSE 0,
       failed |-> h.raised # "none" \/ d.raised # "none"]
      : d \in {ManagerAttempt("d", KeyAfter(key, "1h", h), FALSE, force_update)} })
    : h \in {ManagerAttempt("1h", key, FALSE, force_update)} })

\* the loop of _auto_aggregate_data over the contracts with 1-minute bars, in
\* their order: the two calls, the totals, then update_status(contract);
\* `failed` collects the contracts for which a call caught an exception
RECURSIVE AggregateLoop(_, _, _, _, _)
AggregateLoop(acc, symbols, i, force_update, now) ==
  IF i > Len(symbols) THEN acc
  ELSE TheOne({
         AggregateLoop(
           [db |-> [acc.db EXCEPT ![symbols[i]] = one.key],
            status |-> update_status(acc.status, Given(symbols[i]), None, None, now),
            hourly |-> acc.hourly + one.hourly,
            daily |-> acc.daily + one.daily,
            failed |-> IF one.failed THEN acc.failed \cup {symbols[i]} ELSE acc.failed],
           symbols, i + 1, force_update, now)
         : one \in {AggregateContract(acc.db[symbols[i]], force_update)} })

\* _get_available_symbols: the contracts with 1-minute rows, ORDER BY symbol
_get_available_symbols(db) == SelectSeq([s \in Files |-> s], LAMBDA s : db[s].minute # {})

\* _auto_aggregate_data; when the database file cannot be opened the query of
\* _get_available_symbols raises
_auto_aggregate_data(db, status, force_update, now, db_opens) ==
  LET start == [db |-> db, status |-> status, hourly |-> 0, daily |-> 0, failed |-> {}]
  IN  IF ~db_opens THEN start @@ [raised |-> TRUE]
      ELSE AggregateLoop(start, _get_available_symbols(db), 1, force_update, now)
             @@ [raised |-> FALSE]

\* the summary of a run
Stats(converted_files, imported_contracts, aggregated_hourly, aggregated_daily, errors) ==
  [converted_files |-> converted_files, imported_contracts |-> imported_contracts,
   aggregated_hourly |-> aggregated_hourly, aggregated_daily |-> aggregated_daily,
   errors |-> errors]

\* the summary of the run just made is not at hand: no run was made, or
\* another operation followed it
NoReport ==
  [ran |-> FALSE, force_update |-> FALSE, source_dir |-> FALSE, before |-> <<>>,
   pending |-> <<>>, handed |-> {}, converted |-> {}, imported |-> {}, failed |-> {},
   stats |-> Stats(0, 0, 0, 0, 0), time |-> 0]

\* ManagerEngine.run_data_update_pipeline on the pipeline state p: step 1 when
\* source_dir is given, step 2 on the existing target_dir, step 3 when
\* auto_aggregate; an exception that reaches the outer try counts one error
run_data_update_pipeline(p, source_dir, auto_aggregate, force_update, conv, result, db_opens) ==
  LET now == p.clock + 1
      s1 == IF source_dir
            THEN _process_new_files(p.disk, p.csv, p.status, conv, force_update, now)
            ELSE [csv |-> p.csv, status |-> p.status, pending |-> <<>>,
                  handed |-> {}, converted |-> {}, count |-> 0]
      s2 == _auto_import_converted_data(p.db, s1.csv, force_update, result)
      s3 == IF auto_aggregate
            THEN _auto_aggregate_data(s2.db, s1.status, force_update, now, db_opens)
            ELSE [db |-> s2.db, status |-> s1.status, hourly |-> 0, daily |-> 0,
                  failed |-> {}, raised |-> FALSE]
  IN  [disk |-> p.disk, csv |-> s1.csv, db |-> s3.db, status |-> s3.status,
       clock |-> now,
       report |-> [ran |-> TRUE, force_update |-> force_update, source_dir |-> source_dir,
                   before |-> p.status.processed_files, pending |-> s1.pending,
                   handed |-> s1.handed, converted |-> s1.converted,
                   imported |-> s2.imported,
                   failed |-> s3.failed,
                   stats |-> Stats(s1.count, Cardinality(s2.imported), s3.hourly,
                                   s3.daily, IF s3.raised THEN 1 ELSE 0),
                   time |-> now]]

InitPipeline ==
  /\ store = EmptyKey
  /\ interval = "d"
  /\ imported = 0
  /\ locked = FALSE
  /\ last = LastOf("init", FALSE, FALSE, NoOutcome)
  /\ run = NoRun
  /\ pipe = [disk |-> {}, csv |-> {}, db |-> [f \in Files |-> EmptyKey],
             status |-> DefaultStatus, clock |-> 0, report |-> NoReport]

\* a new .lc1 file arrives in source_dir
AddSourceFile ==
  \E f \in Files \ pipe.disk :
    /\ pipe' = [pipe EXCEPT !.disk = @ \cup {f}, !.report = NoReport]
    /\ UNCHANGED <<store, interval, imported, locked, last, run>>

\* a call update_status(file_path=...) outside a run, for any path
UpdateStatus ==
  \E file_path \in {Given(f) : f \in Files} :
    /\ pipe' = [pipe EXCEPT !.status = update_status(@, None, file_path, None,
                                                     pipe.clock),
                            !.report = NoReport]
    /\ UNCHANGED <<store, interval, imported, locked, last, run>>

\* a call of ManagerEngine.run_data_update_pipeline
RunPipeline ==
  /\ pipe.clock < MaxRuns
  /\ \E source_dir \in BOOLEAN, auto_aggregate \in BOOLEAN, force_update \in BOOLEAN :
       \E conv \in (IF source_dir /\ get_pending_files(pipe.disk, pipe.status) # <<>>
                    THEN ConverterOutcomes(pipe.disk) ELSE {NoConversion}) :
         \E result \in ImportOutcomes(pipe.csv \cup conv.written),
            db_opens \in (IF auto_aggregate THEN BOOLEAN ELSE {TRUE}) :
           pipe' = run_data_update_pipeline(pipe, source_dir, auto_aggregate,
                                            force_update, conv, result, db_opens)
  /\ UNCHANGED <<store, interval, imported, locked, last, run>>

NextPipeline == AddSourceFile \/ UpdateStatus \/ RunPipeline

SpecPipeline == InitPipeline /\ [][NextPipeline]_vars

\* ------------------------------------------------------- the status file
\* data_update_status.json as get_status finds it: missing, holding a JSON
\* document, or holding text that is not JSON
FileConditions == {"missing", "valid", "corrupt"}

\* _ensure_status_file: the default document is written only when no file exists
_ensure_status_file(fs) ==
  IF fs.file = "missing" THEN [file |-> "valid", status |-> DefaultStatus] ELSE fs

\* DataUpdateScheduler.get_status with `depth` frames on the stack: the document
\* of a readable file; on FileNotFoundError or JSONDecodeError
\* _ensure_status_file and a recursive call; a recursion beyond the limit ends
\* with RecursionError
RECURSIVE get_status(_, _)
get_status(fs, depth) ==
  IF depth > RecursionLimit
  THEN [fs |-> fs, raised |-> "RecursionError", doc |-> None]
  ELSE IF fs.file = "valid"
  THEN [fs |-> fs, raised |-> "none", doc |-> fs.status]
  ELSE get_status(_ensure_status_file(fs), depth + 1)

\* no call has returned yet
NoResult == [op |-> "none", raised |-> "none", doc |-> None, found |-> "valid"]

\* DataUpdateScheduler.__init__ has run _ensure_status_file
InitStatusFile ==
  /\ store = EmptyKey
  /\ interval = "d"
  /\ imported = 0
  /\ locked = FALSE
  /\ last = LastOf("init", FALSE, FALSE, NoOutcome)
  /\ run = NoRun
  /\ pipe = [file |-> "valid", status |-> DefaultStatus, result |-> NoResult]

\* a call of get_status
GetStatus ==
  \E out \in {get_status([file |-> pipe.file, status |-> pipe.status], 1)} :
    /\ pipe' = [file |-> out.fs.file, status |-> out.fs.status,
                result |-> [op |-> "get_status", raised |-> out.raised,
                            doc |-> out.doc, found |-> pipe.file]]
    /\ UNCHANGED <<store, interval, imported, locked, last, run>>

\* a call of update_status at wall-clock tick `now`: the document get_status
\* returns is updated and written back; an exception of get_status leaves the
\* call
UpdateStatusFile ==
  \E contract \in {None} \cup {Given(c) : c \in Files},
     file_path \in {None} \cup {Given(f) : f \in Files},
     last_update \in {None} \cup {Given(t) : t \in 1..MaxRuns}, now \in 1..MaxRuns :
    \E out \in {get_status([file |-> pipe.file, status |-> pipe.status], 1)} :
      /\ pipe' = IF out.raised # "none"
                 THEN [file |-> out.fs.file, status |-> out.fs.status,
                       result |-> [op |-> "update_status", raised |-> out.raised,
                                   doc |-> None, found |-> pipe.file]]
                 ELSE [file |-> "valid",
                       status |-> update_status(out.doc, contract, file_path, last_update, now),
                       result |-> [op |-> "update_status", raised |-> "none",
                                   doc |-> None, found |-> pipe.file]]
      /\ UNCHANGED <<store, interval, imported, locked, last, run>>

\* the status file is removed
RemoveStatusFile ==
  /\ pipe.file # "missing"
  /\ pipe' = [file |-> "missing", status |-> DefaultStatus, result |-> NoResult]
  /\ UNCHANGED <<store, interval, imported, locked, last, run>>

\* the status file is left with text that is not JSON (a write that was cut
\* short, an edit by hand)
DamageStatusFile ==
  /\ pipe.file = "valid"
  /\ pipe' = [file |-> "corrupt", status |-> DefaultStatus, result |-> NoResult]
  /\ UNCHANGED <<store, interval, imported, locked, last, run>>

NextStatusFile == GetStatus \/ UpdateStatusFile \/ RemoveStatusFile \/ DamageStatusFile

SpecStatusFile == InitStatusFile /\ [][NextStatusFile]_vars

\* ------------------------------------------- miniute2csv_data, relabeling
\* the times the three labeling cases compare with, and the day-close minutes
\* 14:50..14:59 that last_time[1][:4] == '14:5' selects
NightOpen == 1260
NightEnd == 180
DayOpen == 181
DayCloseFrom == 890
DayCloseTo == 899

\* a record of the file: its date field, its minute field a[1] and its values;
\* the i-th record carries the value i, so that no two lines are alike
Record(date, hm, i) == [date |-> date, minute |-> hm + 1, value |-> i]

\* (t + timedelta(minutes=a[1]-1)).strftime("%H:%M:%S"), in minutes after midnight
hm_of(minute) == (minute - 1) % 1440

\* the order of the records in a file: by trading date, and within a trading
\* date the night session (from 21:00:00, on past midnight) before the day
SessionMinute(hm) == (hm + 1440 - NightOpen) % 1440
RecordBefore(r, date, hm) ==
  \/ r.date < date
  \/ r.date = date /\ SessionMinute(hm_of(r.minute)) < SessionMinute(hm)

\* a line of the CSV: date, time, the timestamp computed from both, values
Line(date, hm, value) ==
  [date |-> date, hm |-> hm, timestamp |-> date * 1440 + hm, value |-> value]

\* the variables of the loop before the first record
ConvertInit ==
  [last_time |-> [date |-> 0, hm |-> 660], cover_codiction |-> 0,
   first_date_filter |-> 0, old_date |-> 0, line |-> Line(0, 0, 0)]

\* the labeling with the minutes after midnight left on their own date
RelabelLine_MidnightKeepsOwnDate(st, rec) ==
  LET hm == hm_of(rec.minute)
  IN  IF st.cover_codiction = 1
      THEN IF hm >= NightOpen
           THEN [st EXCEPT !.line = Line(st.old_date, hm, rec.value)]
           ELSE IF hm < NightEnd
           THEN [st EXCEPT !.line = Line(rec.date, hm, rec.value)]
           ELSE IF hm >= DayOpen
           THEN [st EXCEPT !.line = Line(rec.date, hm, rec.value),
                           !.cover_codiction = 0]
           ELSE st
      ELSE [st EXCEPT !.line = Line(rec.date, hm, rec.value)]

\* `if cover_codiction == 1: ... else: ...`: the line of the record under the
\* three labeling cases; a time that meets none of them leaves `line` as the
\* previous iteration set it
RelabelLine(st, rec) ==
  LET hm == hm_of(rec.minute)
      new_date == st.old_date + 1
  IN  IF st.cover_codiction = 1
      THEN IF hm >= NightOpen
           THEN [st EXCEPT !.line = Line(st.old_date, hm, rec.value)]
           ELSE IF hm < NightEnd
           THEN [st EXCEPT !.line = Line(new_date, hm, rec.value)]
           ELSE IF hm >= DayOpen
           THEN [st EXCEPT !.line = Line(rec.date, hm, rec.value),
                           !.cover_codiction = 0]
           ELSE st
      ELSE [st EXCEPT !.line = Line(rec.date, hm, rec.value)]

\* the body of `for i in range(int(no))` up to the write: the day-close test,
\* the labeling, last_time
ConvertStep(st, rec) ==
  LET hm == hm_of(rec.minute)
      closed == /\ st.last_time.hm >= DayCloseFrom
                /\ st.last_time.hm <= DayCloseTo
                /\ hm \div 60 # 14
      st1 == IF closed
             THEN [st EXCEPT !.first_date_filter = 1,
                             !.old_date = st.last_time.date,
                             !.cover_codiction = 1]
             ELSE st
  IN  [RelabelLine(st1, rec) EXCEPT !.last_time = [date |-> rec.date, hm |-> hm]]

\* a file is opened for conversion; `records` are the records read so far
InitConvert ==
  /\ store = EmptyKey
  /\ interval = "d"
  /\ imported = 0
  /\ locked = FALSE
  /\ last = LastOf("init", FALSE, FALSE, NoOutcome)
  /\ run = NoRun
  /\ pipe = [records |-> <<>>, i |-> 0, st |-> ConvertInit, lines |-> <<>>,
             csv |-> <<>>]

\* one iteration of the loop: the next record of the file is labeled and, once
\* the first day-close was seen, its line is written; `lines` keeps the line
\* of every iteration, written or not
ConvertRecord ==
  /\ pipe.i < MaxRecords
  /\ \E date \in 1..MaxDate, hm \in RecordTimes :
       /\ pipe.i > 0 => RecordBefore(pipe.records[pipe.i], date, hm)
       /\ \E rec \in {Record(date, hm, pipe.i + 1)} :
            \E st \in {ConvertStep(pipe.st, rec)} :
              pipe' = [pipe EXCEPT !.records = Append(@, rec),
                                   !.i = @ + 1,
                                   !.st = st,
                                   !.lines = Append(@, st.line),
                                   !.csv = IF st.first_date_filter = 1
                                           THEN Append(@, st.line) ELSE @]
  /\ UNCHANGED <<store, interval, imported, locked, last, run>>

NextConvert == ConvertRecord

SpecConvert == InitConvert /\ [][NextConvert]_vars

\* --------------------------------------------- BacktesterEngine, task thread
\* the ways out of the three task functions.  run_backtesting: the data load
\* fails or the history is empty; engine.run_backtesting raises; a statement
\* outside the try raises (self.classes[class_name], the load, the result
\* calculation); the run completes.  run_optimization: the CSV load fails; the
\* history is empty; the load raises; a statement after the load raises (the
\* settings, the optimization itself); the run completes.  run_downloading:
\* the symbol does not parse; Interval(interval) raises outside the try; the
\* download completes or raises inside the try.
BacktestingExits == {"load_failed", "run_exception", "uncaught", "normal"}
OptimizationExits ==
  {"csv_load_failed", "history_empty", "load_exception", "uncaught", "normal"}
DownloadingExits == {"parse_failed", "uncaught", "download_exception", "normal"}

\* Thread.is_alive(): the thread was started and its function has not returned
is_alive(task) == task.pc # "ended"

\* the engine after run_backtesting took the exit: every exit but the uncaught
\* exception sets self.thread = None; after the normal one the function goes
\* on (trade records, finished event) before it returns
run_backtesting(e, n, exit) ==
  IF exit = "uncaught"
  THEN [e EXCEPT !.tasks[n].pc = "ended", !.tasks[n].exit = exit]
  ELSE [e EXCEPT !.thread = None,
                 !.tasks[n].pc = IF exit = "normal" THEN "tail" ELSE "ended",
                 !.tasks[n].exit = exit]

\* the engine after run_optimization took the exit: the failed CSV load and the
\* uncaught exception return with the handle and the flag as they are, the
\* empty history clears the handle only, the caught load exception and the
\* normal end clear both; after the normal end the log and the finished event
\* follow
run_optimization(e, n, exit) ==
  IF exit \in {"csv_load_failed", "uncaught"}
  THEN [e EXCEPT !.tasks[n].pc = "ended", !.tasks[n].exit = exit]
  ELSE IF exit = "history_empty"
  THEN [e EXCEPT !.thread = None,
                 !.tasks[n].pc = "ended", !.tasks[n].exit = exit]
  ELSE [e EXCEPT !.thread = None,
                 !.optimization_running = FALSE,
                 !.tasks[n].pc = IF exit = "normal" THEN "tail" ELSE "ended",
                 !.tasks[n].exit = exit]

\* the engine after run_downloading took the exit: self.thread = None is the
\* last statement of every exit but the uncaught exception
run_downloading(e, n, exit) ==
  IF exit = "uncaught"
  THEN [e EXCEPT !.tasks[n].pc = "ended", !.tasks[n].exit = exit]
  ELSE [e EXCEPT !.thread = None,
                 !.tasks[n].pc = "ended", !.tasks[n].exit = exit]

\* `if self.thread: return False`, else `self.thread = Thread(...)` and
\* start(); start_optimization sets optimization_running before
StartThread(e, kind) ==
  IF e.thread # None
  THEN [e EXCEPT !.result = [op |-> kind, ret |-> FALSE]]
  ELSE [e EXCEPT !.thread = Given(Len(e.tasks) + 1),
                 !.optimization_running = IF kind = "optimization" THEN TRUE ELSE @,
                 !.tasks = Append(@, [kind |-> kind, pc |-> "running",
                                      exit |-> "none"]),
                 !.result = [op |-> kind, ret |-> TRUE]]

\* BacktesterEngine.__init__ and init_engine: no thread, no optimization
InitBacktester ==
  /\ store = EmptyKey
  /\ interval = "d"
  /\ imported = 0
  /\ locked = FALSE
  /\ last = LastOf("init", FALSE, FALSE, NoOutcome)
  /\ run = NoRun
  /\ pipe = [thread |-> None, optimization_running |-> FALSE, ui |-> "idle",
             tasks |-> <<>>, result |-> [op |-> "none", ret |-> FALSE]]

Frame == UNCHANGED <<store, interval, imported, locked, last, run>>

\* the three start calls of the UI thread
start_backtesting ==
  /\ pipe.ui = "idle"
  /\ pipe.thread = None => Len(pipe.tasks) < MaxThreads
  /\ pipe' = StartThread(pipe, "backtesting")
  /\ Frame

start_optimization ==
  /\ pipe.ui = "idle"
  /\ pipe.thread = None => Len(pipe.tasks) < MaxThreads
  /\ pipe' = StartThread(pipe, "optimization")
  /\ Frame

start_downloading ==
  /\ pipe.ui = "idle"
  /\ pipe.thread = None => Len(pipe.tasks) < MaxThreads
  /\ pipe' = StartThread(pipe, "downloading")
  /\ Frame

\* stop_optimization up to the join: refused without a handle or without the
\* flag; for a thread that is alive the flag is reset and the UI thread waits
\* in join(timeout=2.0); for one that has ended the handle is cleared
stop_optimization ==
  /\ pipe.ui = "idle"
  /\ pipe' =
       IF pipe.thread = None \/ ~pipe.optimization_running
       THEN [pipe EXCEPT !.result = [op |-> "stop", ret |-> FALSE]]
       ELSE IF is_alive(pipe.tasks[pipe.thread.value])
       THEN [pipe EXCEPT !.optimization_running = FALSE, !.ui = "joining"]
       ELSE [pipe EXCEPT !.thread = None,
                         !.result = [op |-> "stop", ret |-> TRUE]]
  /\ Frame

\* stop_optimization from the return of the join, which comes when the thread
\* has ended or when the two seconds are over: self.thread.is_alive() raises
\* AttributeError when the task cleared the handle meanwhile, and the except
\* clause returns False; else the handle is cleared, alive or not
stop_optimization_joined ==
  /\ pipe.ui = "joining"
  /\ pipe' =
       IF pipe.thread = None
       THEN [pipe EXCEPT !.ui = "idle", !.result = [op |-> "stop", ret |-> FALSE]]
       ELSE [pipe EXCEPT !.ui = "idle", !.thread = None,
                         !.result = [op |-> "stop", ret |-> TRUE]]
  /\ Frame

\* a task thread runs its function up to the exit it takes
TaskBacktesting ==
  /\ \E n \in 1..Len(pipe.tasks), exit \in BacktestingExits :
       /\ pipe.tasks[n].kind = "backtesting"
       /\ pipe.tasks[n].pc = "running"
       /\ pipe' = run_backtesting(pipe, n, exit)
  /\ Frame

TaskOptimization ==
  /\ \E n \in 1..Len(pipe.tasks), exit \in OptimizationExits :
       /\ pipe.tasks[n].kind = "optimization"
       /\ pipe.tasks[n].pc = "running"
       /\ pipe' = run_optimization(pipe, n, exit)
  /\ Frame

TaskDownloading ==
  /\ \E n \in 1..Len(pipe.tasks), exit \in DownloadingExits :
       /\ pipe.tasks[n].kind = "downloading"
       /\ pipe.tasks[n].pc = "running"
       /\ pipe' = run_downloading(pipe, n, exit)
  /\ Frame

\* the statements after the handle was cleared are done and the function returns
TaskReturns ==
  /\ \E n \in 1..Len(pipe.tasks) :
       /\ pipe.tasks[n].pc = "tail"
       /\ pipe' = [pipe EXCEPT !.tasks[n].pc = "ended"]
  /\ Frame

NextBacktester ==
  \/ start_backtesting
  \/ start_optimization
  \/ start_downloading
  \/ stop_optimization
  \/ stop_optimization_joined
  \/ TaskBacktesting
  \/ TaskOptimization
  \/ TaskDownloading
  \/ TaskReturns

SpecBacktester == InitBacktester /\ [][NextBacktester]_vars

\* ------------------------------------------------------- claims, helpers
RECURSIVE SumOver(_, _)
SumOver(seq, i) == IF i > Len(seq) THEN 0 ELSE seq[i].volume + SumOver(seq, i + 1)

SeqMax(seq, f(_)) == CHOOSE m \in {f(seq[i]) : i \in 1..Len(seq)} :
                       \A i \in 1..Len(seq) : f(seq[i]) <= m
SeqMin(seq, f(_)) == CHOOSE m \in {f(seq[i]) : i \in 1..Len(seq)} :
                       \A i \in 1..Len(seq) : m <= f(seq[i])

HighOf(r) == r.high_price
LowOf(r) == r.low_price

DateOf(r) == fromisoformat(r.datetime).date
TodOf(r) == fromisoformat(r.datetime).tod

\* the last call was an aggregation of the followed interval
Aggregated(iv) == last.op = "aggregate" /\ interval = iv

\* (calendar date, hour) of a 1-minute row, and the rows of one such group
HourGroup(r) == <<DateOf(r), TodOf(r) \div 60>>
HourGroups(fed) == {HourGroup(fed[i]) : i \in 1..Len(fed)}
RowsOfHour(fed, g) == SelectSeq(fed, LAMBDA r : HourGroup(r) = g)

\* the hourly bar the reduction rules give for group g of fed
ExpectedHourlyBar(fed, g) ==
  LET rows == RowsOfHour(fed, g)
  IN  [datetime |-> isoformat_space([date |-> g[1], tod |-> g[2] * 60]),
       volume |-> SumOver(rows, 1), turnover |-> 0, open_interest |-> 0,
       open_price |-> rows[1].open_price,
       high_price |-> SeqMax(rows, HighOf),
       low_price |-> SeqMin(rows, LowOf),
       close_price |-> rows[Len(rows)].close_price]

\* C1: a Fresh hourly aggregation (no '1h' row stored) over the ascending 1-minute
\* rows of the key emits exactly one bar per (calendar date, hour) group, stamped
\* at the hour's start, with open = first open, close = last close, high/low =
\* max/min, volume = sum of the group; the last group is emitted at the end of
\* the stream; the emitted bars are the rows stored when the call returns.
C1_HourlyReduction ==
  (Aggregated("1h") /\ last.branch = "Fresh" /\ last.fed # <<>>) =>
    /\ last.fed = OrderByDatetime(store.minute)
    /\ Len(last.batch) = Cardinality(HourGroups(last.fed))
    /\ BatchRows(last.batch) = {ExpectedHourlyBar(last.fed, g) : g \in HourGroups(last.fed)}
    /\ HourGroup(last.fed[Len(last.fed)]) = <<DateOf(last.batch[Len(last.batch)]),
                                              TodOf(last.batch[Len(last.batch)]) \div 60>>
    /\ (last.raised = "none" => store.target["1h"] = BatchRows(last.batch))

\* C1 witness: a Fresh hourly run over three rows, two of them in one hour
C1_Witness ==
  /\ Aggregated("1h") /\ last.branch = "Fresh" /\ last.raised = "none"
  /\ Len(last.fed) = 3 /\ Len(last.batch) = 2
  /\ Cardinality(store.target["1h"]) = 2

\* a pre-midnight night session on date d, its continuation after midnight on
\* d + 1 and a day session on d + 1 that ends with the stream's only 14:59:00 bar
NightThenDay(fed, d) ==
  /\ Len(fed) >= 3
  /\ DateOf(fed[1]) = d /\ TodOf(fed[1]) >= 1260
  /\ \E i \in 1..Len(fed) : DateOf(fed[i]) = d + 1 /\ TodOf(fed[i]) < 180
  /\ \A i \in 1..Len(fed) :
       \/ DateOf(fed[i]) = d /\ TodOf(fed[i]) >= 1260
       \/ DateOf(fed[i]) = d + 1 /\ TodOf(fed[i]) <= DayEndCutoff
  /\ \A i \in 1..Len(fed) : (TodOf(fed[i]) = DayEndCutoff) <=> (i = Len(fed))

\* C2: Fresh daily aggregation of a night session on D, its continuation on D+1
\* and a day session on D+1 closed by the only 14:59:00 bar emits exactly one
\* daily bar, stamped D+1 15:00:00, with open = the first (night) bar's open,
\* close = the 14:59:00 bar's close and volume = the sum over all bars.
C2_NightSessionOneDay ==
  \A d \in 1..MaxDay :
    (Aggregated("d") /\ last.branch = "Fresh" /\ NightThenDay(last.fed, d)) =>
      /\ Len(last.batch) = 1
      /\ last.batch[1].datetime = isoformat_space([date |-> d + 1, tod |-> DailyCloseStamp])
      /\ last.batch[1].open_price = last.fed[1].open_price
      /\ last.batch[1].close_price = last.fed[Len(last.fed)].close_price
      /\ last.batch[1].volume = SumOver(last.fed, 1)
      /\ (last.raised = "none" => store.target["d"] = {last.batch[1]})

C2_Witness ==
  /\ Aggregated("d") /\ last.branch = "Fresh" /\ last.raised = "none"
  /\ NightThenDay(last.fed, 1)
  /\ Cardinality(store.target["d"]) = 1

\* the rows of fed after its last 14:59:00 row (all of fed when it has none)
RECURSIVE AfterLastCutoff(_)
AfterLastCutoff(fed) ==
  IF fed = <<>> THEN <<>>
  ELSE IF TodOf(fed[Len(fed)]) = DayEndCutoff THEN <<>>
  ELSE Append(AfterLastCutoff(SubSeq(fed, 1, Len(fed) - 1)), fed[Len(fed)])

CutoffCount(fed) == Cardinality({i \in 1..Len(fed) : TodOf(fed[i]) = DayEndCutoff})

\* C3: when the fetched stream ends inside a trading day that has no 14:59:00
\* bar, daily aggregation emits exactly one bar for that partial day, after the
\* bars of the closed days: close = the last bar's close, datetime = the last
\* bar's own date and time, open and volume taken over the bars of the partial
\* day; it is stored with the batch when the call returns.
C3_PartialDayFlush ==
  (Aggregated("d") /\ last.fed # <<>> /\ TodOf(last.fed[Len(last.fed)]) # DayEndCutoff) =>
    LET fed == last.fed
        tail == AfterLastCutoff(fed)
        bar == last.batch[Len(last.batch)]
    IN  /\ Len(last.batch) = CutoffCount(fed) + 1
        /\ bar.datetime = isoformat_space([date |-> DateOf(fed[Len(fed)]),
                                           tod |-> TodOf(fed[Len(fed)])])
        /\ bar.close_price = fed[Len(fed)].close_price
        /\ bar.open_price = tail[1].open_price
        /\ bar.volume = SumOver(tail, 1)
        /\ (last.raised = "none" => bar \in store.target["d"])

\* C3 witness: a closed day followed by two bars of a day that is never closed
C3_Witness ==
  /\ Aggregated("d") /\ last.raised = "none" /\ Len(last.fed) = 3
  /\ TodOf(last.fed[1]) = DayEndCutoff
  /\ Len(AfterLastCutoff(last.fed)) = 2
  /\ Cardinality(store.target["d"]) = 2

\* C4: when the daily aggregation is run in incremental mode (force_update=False,
\* incremental=True) straight after an incremental run, with no 1-minute row
\* inserted in between, the second run inserts no daily row and leaves the
\* key's rows and overview as they were; it returns normally when the first
\* run did.
C4_IncrementalIdempotent ==
  [][(/\ Aggregated("d") /\ ~last.force_update /\ last.incremental
      /\ last'.op = "aggregate" /\ ~last'.force_update /\ last'.incremental
      /\ AggregateDaily)
     => (/\ last'.ret = 0
         /\ store' = store
         /\ last.raised = "none" => last'.raised = "none")]_vars

\* C4 witness: the second of two incremental daily runs, the first of which
\* flushed a partial day; nothing was fetched and nothing inserted
C4_Witness ==
  /\ Aggregated("d") /\ last.branch = "Incremental" /\ last.raised = "none"
  /\ last.ret = 0 /\ last.fed = <<>>
  /\ Cardinality(store.minute) = 2
  /\ \E r \in store.target["d"] : TodOf(r) # DailyCloseStamp
  /\ \A m \in store.minute : ~TextLess(MaxDatetime(store.target["d"]), m.datetime)

\* the daily rows of the key after all of them are deleted and a Fresh run is
\* made over the stored 1-minute rows; a locked file refuses the delete
DeleteThenFresh(key, lock) ==
  IF lock THEN key.target["d"]
  ELSE aggregate_daily_data([key EXCEPT !.target["d"] = {}], lock, FALSE, TRUE).rows

\* C5: a force_update run on a key that has daily rows leaves the daily rows
\* that deleting them all and running a Fresh aggregation leaves.
C5_ForceEqualsDeleteFresh ==
  [][(/\ store.target["d"] # {}
      /\ last'.op = "aggregate" /\ last'.force_update
      /\ AggregateDaily)
     => store'.target["d"] = DeleteThenFresh(store, locked)]_vars

\* C5 witness: a force-update run replaced daily rows that no longer matched
\* the 1-minute history (two daily rows were stored, one is regenerated)
C5_Witness ==
  /\ Aggregated("d") /\ last.branch = "ForceUpdate" /\ last.raised = "none"
  /\ Len(last.fed) = 3 /\ last.ret = 1
  /\ store.target["d"] = BatchRows(last.batch)

\* the overview row of the interval agrees with its rows (no overview row and
\* no row agree)
OverviewConsistent(key, iv) ==
  IF key.overview[iv] = None THEN key.target[iv] = {}
  ELSE key.overview[iv] = RecomputeOverview(key.target[iv])

\* C6: after any aggregation call that returns, also one that inserts no row,
\* the overview row of the interval has count = COUNT(*), start = MIN(datetime)
\* and end = MAX(datetime) over the interval's rows.
C6_OverviewConsistent ==
  (last.op = "aggregate" /\ last.raised = "none") => OverviewConsistent(store, interval)

\* C7: no aggregation batch holds two bars with the same datetime, and none
\* holds a bar whose datetime is that of a row stored when the batch is inserted.
C7_NoDuplicateKey ==
  last.op = "aggregate" =>
    /\ \A i, j \in 1..Len(last.batch) :
         i # j => last.batch[i].datetime # last.batch[j].datetime
    /\ last.raised # "IntegrityError"

\* dt is strictly later than since
Later(dt, since) ==
  dt.date > since.date \/ (dt.date = since.date /\ dt.tod > since.tod)

\* C8: in incremental mode the rows fed to the aggregator are exactly the
\* stored 1-minute rows strictly later than the latest target timestamp
\* (start_time), in ascending order.
C8_IncrementalFeedsNewTail ==
  (last.op = "aggregate" /\ last.branch = "Incremental") =>
    last.fed = OrderByDatetime({r \in store.minute :
                                  Later(fromisoformat(r.datetime), last.start_time)})

\* C9: an incremental run that finds no resume timestamp (the stored maximum
\* does not parse) returns normally and leaves exactly the rows of a Fresh
\* aggregation of the whole 1-minute history.
C9_FallbackIsFresh ==
  (last.op = "aggregate" /\ last.branch = "FallbackFresh") =>
    /\ last.raised = "none"
    /\ store.target[interval] =
         BatchRows(FoldFor(interval, OrderByDatetime(store.minute)).data)
\* the calls of the batch are, symbol by symbol in list order, the hourly call
\* and then the daily call
AttemptedInListOrder ==
  /\ Len(run.attempted) = 2 * Len(run.symbols)
  /\ \A k \in 1..Len(run.symbols) :
       /\ run.attempted[2 * k - 1].symbol = run.symbols[k]
       /\ run.attempted[2 * k - 1].interval = "1h"
       /\ run.attempted[2 * k].symbol = run.symbols[k]
       /\ run.attempted[2 * k].interval = "d"

\* the call was refused because the file was locked by the failed call of
\* another symbol
PreventedByOther(a) ==
  a.raised = "OperationalError" /\ a.holder # 0 /\ a.holder # a.symbol

ParseableRows(minute) == OrderByDatetime({r \in minute : fromisoformat(r.datetime).ok})

\* C12: when one 1-minute row of the key has an unparseable timestamp, a run
\* that reads the whole history skips only that row: it returns normally and
\* emits the bars of the remaining rows.
C12_BadRowSkipped ==
  (/\ last.op = "aggregate"
   /\ last.branch \in {"Fresh", "ForceUpdate"}
   /\ \E r \in store.minute : ~fromisoformat(r.datetime).ok
   /\ ParseableRows(store.minute) # <<>>)
  => /\ last.raised = "none"
     /\ last.batch = FoldFor(interval, ParseableRows(store.minute)).data

\* the list names an interval that is neither an hourly nor a daily alias
HasUnsupportedInterval(intervals) ==
  \E i \in 1..Len(intervals) : lower(intervals[i]) \notin HourlyAliases \cup DailyAliases

\* C13: process_symbol called with a list that names an unsupported interval
\* surfaces an error to its caller and writes no row for the other intervals of
\* the list.
C13_UnsupportedIntervalFatal ==
  [][(/\ last'.op = "process"
      /\ HasUnsupportedInterval(last'.intervals)
      /\ ProcessSymbol)
     => (last'.raised # "none" /\ store' = store)]_vars

\* C17: in ManagerEngine, when rows of the target interval exist and
\* force_update is False, the aggregation returns 0 and leaves the rows and the
\* overview of the key unchanged, whatever 1-minute bars were imported since;
\* existing target rows change only in a call with force_update=True.
C17_ManagerSkipsExisting ==
  [][/\ (/\ store.target[interval] # {}
         /\ last'.op = "manager" /\ ~last'.force_update
         /\ (ManagerHourly \/ ManagerDaily))
        => (last'.ret = 0 /\ store' = store)
     /\ (store.target[interval] # {} /\ store'.target # store.target)
        => (last'.op = "manager" /\ last'.force_update)]_vars

\* C17 witness: a call without force_update was skipped although a 1-minute
\* bar newer than every target row had been imported
C17_Witness ==
  /\ last.op = "manager" /\ ~last.force_update /\ last.branch = "Skip" /\ last.ret = 0
  /\ \E m \in store.minute : \A t \in store.target[interval] :
       fromisoformat(m.datetime).date > fromisoformat(t.datetime).date

\* the time of day of the modelled day-session bar before the cutoff
DaySessionTime ==
  CHOOSE t \in TimesOfDay :
    t < DayEndCutoff /\ \A u \in TimesOfDay : u < DayEndCutoff => u <= t

\* C19: when a day-session bar before 14:59:00 is followed by a bar of a later
\* calendar date, the daily aggregation closes the earlier day there: a daily
\* bar ends at that bar, with its close, and the later bars go to another bar.
C19_DayClosedOnDateChange ==
  Aggregated("d") =>
    \A i \in 1..(Len(last.fed) - 1) :
      (TodOf(last.fed[i]) = DaySessionTime /\ DateOf(last.fed[i]) < DateOf(last.fed[i + 1]))
      => \E k \in 1..Len(last.batch) :
           /\ SumOver(SubSeq(last.batch, 1, k), 1) = SumOver(SubSeq(last.fed, 1, i), 1)
           /\ last.batch[k].close_price = last.fed[i].close_price

\* the fed rows split after every 14:59:00 row: the rows folded into each
\* daily bar, the last group being the unclosed day
RECURSIVE SplitAtCutoff(_, _, _)
SplitAtCutoff(fed, i, cur) ==
  IF i > Len(fed) THEN (IF cur = <<>> THEN <<>> ELSE <<cur>>)
  ELSE IF TodOf(fed[i]) = DayEndCutoff
  THEN <<Append(cur, fed[i])>> \o SplitAtCutoff(fed, i + 1, <<>>)
  ELSE SplitAtCutoff(fed, i + 1, Append(cur, fed[i]))

\* C20: every daily bar emitted has high = the maximum high_price and low = the
\* minimum low_price of the 1-minute bars folded into it, for prices of any sign.
C20_DailyHighLow ==
  (Aggregated("d") /\ last.raised # "ValueError") =>
    LET groups == SplitAtCutoff(last.fed, 1, <<>>)
    IN  /\ Len(last.batch) = Len(groups)
        /\ \A k \in 1..Len(groups) :
             /\ last.batch[k].high_price = SeqMax(groups[k], HighOf)
             /\ last.batch[k].low_price = SeqMin(groups[k], LowOf)

\* ------------------------------------------------------------------ C11
\* C11: whenever the hourly or the daily aggregation of at least one contract
\* fails during run_data_update_pipeline, the summary returned by the run has
\* errors > 0.
C11_FailureCounted ==
  (pipe.report.ran /\ pipe.report.failed # {}) => pipe.report.stats.errors > 0

\* ------------------------------------------------------------------ C14
\* the paths of S in ascending order
RECURSIVE SortedPaths(_)
SortedPaths(S) ==
  IF S = {} THEN <<>>
  ELSE LET m == CHOOSE x \in S : \A y \in S : x <= y
       IN  <<m>> \o SortedPaths(S \ {m})

\* C14: across update_status calls and pipeline runs processed_files only
\* grows: an entry once recorded is never removed, is_file_processed stays
\* true for it, it never appears again in the result of get_pending_files,
\* and that result is exactly the sorted set of the on-disk .lc1 files minus
\* the recorded ones (also for the pending files a run works on).
C14_ProcessedFilesGrow ==
  [][LET before == pipe.status.processed_files
         after == pipe'.status.processed_files
     IN  /\ Len(after) >= Len(before)
         /\ SubSeq(after, 1, Len(before)) = before
         /\ \A f \in PathSet(before) :
              /\ is_file_processed(pipe'.status, f)
              /\ f \notin PathSet(get_pending_files(pipe'.disk, pipe'.status))
         /\ get_pending_files(pipe'.disk, pipe'.status)
              = SortedPaths(pipe'.disk \ PathSet(after))
         /\ (pipe'.report.ran /\ pipe'.report.source_dir)
              => pipe'.report.pending = SortedPaths(pipe.disk \ PathSet(before))]_vars

\* a run found a recorded file on disk beside a pending one and left it out
C14_Witness ==
  /\ pipe.report.ran
  /\ pipe.report.source_dir
  /\ pipe.report.pending # <<>>
  /\ \E f \in PathSet(pipe.report.before) \cap pipe.disk :
       /\ f \notin PathSet(pipe.report.pending)
       /\ is_file_processed(pipe.status, f)
  /\ Len(pipe.status.processed_files) > Len(pipe.report.before)

\* ------------------------------------------------------------------ C15
\* C15: a source file already recorded in processed_files is converted again
\* by a run of run_data_update_pipeline if and only if the run has
\* force_update=True (checked on the runs whose converter wrote every file it
\* was run on).
C15_ReconvertedIffForced ==
  (/\ pipe.report.ran
   /\ pipe.report.source_dir
   /\ pipe.report.converted = pipe.report.handed)
  => \A f \in PathSet(pipe.report.before) \cap pipe.disk :
       (f \in pipe.report.converted) <=> pipe.report.force_update

\* ------------------------------------------------------------------ C16
\* C16: a run adds a file path to processed_files only when the file was
\* converted and its bars were imported into the 1-minute store in that run; a
\* pending file whose conversion or import failed is not marked and stays
\* pending.
C16_MarkedOnlyAfterIngestion ==
  pipe.report.ran =>
    \A f \in PathSet(pipe.status.processed_files) \ PathSet(pipe.report.before) :
      /\ f \in pipe.report.converted
      /\ f \in pipe.report.imported

\* ------------------------------------------------------------------ C18
\* C18: after run_data_update_pipeline completes, the top-level last_update of
\* the status document holds the time of that run (so it is not None once a
\* run has completed).
C18_LastUpdateIsRunTime ==
  pipe.report.ran => pipe.status.last_update = now_isoformat(pipe.report.time)

\* ------------------------------------------------------------------ C26
\* C26: a force-update aggregation that fails after it has started leaves the
\* previously stored rows of the interval and its overview row intact.
C26_FailedForceKeepsRows ==
  [][(/\ last'.op = "aggregate"
      /\ last'.force_update
      /\ last'.raised # "none"
      /\ (AggregateHourly \/ AggregateDaily))
     => (store'.target = store.target /\ store'.overview = store.overview)]_vars

\* ------------------------------------------------------------------ C25
\* C25: in a Fresh aggregation every fetched 1-minute bar is folded into
\* exactly one emitted bar of the interval, hourly or daily: the volumes of the
\* emitted bars sum to the volumes of the fetched 1-minute bars, and the fetched
\* bars are all the 1-minute bars of the key.
C25_VolumeConserved ==
  (last.op = "aggregate" /\ last.branch = "Fresh" /\ last.fed # <<>>) =>
    /\ last.fed = OrderByDatetime(store.minute)
    /\ SumOver(last.batch, 1) = SumOver(last.fed, 1)

\* C25 witness: a Fresh run that emitted fewer bars than it fetched, the last
\* fetched bar lying after the day's cutoff
C25_Witness ==
  /\ last.op = "aggregate" /\ last.branch = "Fresh" /\ last.raised = "none"
  /\ Len(last.fed) = 3 /\ Len(last.batch) = 2
  /\ TodOf(last.fed[3]) > DayEndCutoff

\* ------------------------------------------------------------------ C23
\* C23: when aggregate_hourly_data is run in incremental mode straight after an
\* incremental run that returned, with no 1-minute row inserted in between, the
\* second run inserts no hourly row, leaves rows and overview as they were and
\* returns 0, although its resume point is the start of the last aggregated
\* hour and the 1-minute bars of that hour carry later timestamps.
C23_HourlyRerunInsertsNothing ==
  [][(/\ Aggregated("1h") /\ ~last.force_update /\ last.incremental
      /\ last.raised = "none"
      /\ last'.op = "aggregate" /\ ~last'.force_update /\ last'.incremental
      /\ AggregateHourly)
     => (/\ last'.ret = 0
         /\ last'.raised = "none"
         /\ store' = store)]_vars

\* C23 witness: an incremental hourly run that resumed at the start of the last
\* aggregated hour, fetched nothing and inserted nothing, while a 1-minute bar
\* of that hour has a later time and every hour of the key has its row
C23_Witness ==
  /\ Aggregated("1h") /\ last.branch = "Incremental" /\ last.raised = "none"
  /\ last.ret = 0 /\ last.fed = <<>>
  /\ last.start_time.tod % 60 = 0
  /\ \E m \in store.minute :
       /\ DateOf(m) = last.start_time.date
       /\ TodOf(m) \div 60 = last.start_time.tod \div 60
       /\ TodOf(m) > last.start_time.tod
  /\ Cardinality(store.target["1h"]) = Cardinality(HourGroups(OrderByDatetime(store.minute)))

\* ------------------------------------------------------------------ C24
\* what a Fresh aggregation of interval iv over the 1-minute rows of key leaves
FreshOutcome(key, iv) ==
  PreprocessorAggregate(iv, [key EXCEPT !.target[iv] = {}], FALSE, FALSE, TRUE)

\* C24: after an incremental run (force_update=False, incremental=True) on a
\* key that was aggregated before, the stored rows of the interval, daily or
\* hourly, equal the rows a Fresh aggregation over all 1-minute rows of the key
\* produces.
C24_IncrementalEqualsFresh ==
  (/\ last.op = "aggregate" /\ last.branch = "Incremental"
   /\ last.raised = "none"
   /\ FreshOutcome(store, interval).raised = "none")
  => store.target[interval] = FreshOutcome(store, interval).rows

\* ------------------------------------------------------------------ C22
\* C22: starting from the same store state, with no stored row of the interval
\* or with force_update=True, ManagerEngine._aggregate_hourly_data /
\* _aggregate_daily_data leave the bar rows and the overview row that
\* BarDataPreprocessor.aggregate_hourly_data / aggregate_daily_data leave, for
\* either value of incremental.
C22_TwoCopiesAgree ==
  [][(/\ last'.op = "manager"
      /\ (store.target[interval] = {} \/ last'.force_update)
      /\ (ManagerHourly \/ ManagerDaily))
     => \A incremental \in BOOLEAN :
          store' = KeyAfter(store, interval,
                            PreprocessorAggregate(interval, store, locked,
                                                  last'.force_update, incremental))]_vars

\* C22 witness: a ManagerEngine run with force_update regenerated stored rows
\* from a history that had grown since they were written
C22_Witness ==
  /\ last.op = "manager" /\ last.force_update /\ last.branch = "Regenerate"
  /\ last.ret = 2
  /\ Len(last.fed) = 3
  /\ store.target[interval] = BatchRows(last.batch)
  /\ store.overview[interval] = RecomputeOverview(store.target[interval])

\* ------------------------------------------------------------------ C27
\* C27: DataUpdateScheduler.get_status always terminates and returns a
\* document with the keys last_update, contracts and processed_files, whether
\* the status file is valid, missing or holds text that is not JSON.
C27_GetStatusReturnsDocument ==
  pipe.result.op = "get_status" =>
    /\ pipe.result.raised = "none"
    /\ DOMAIN pipe.result.doc = {"last_update", "contracts", "processed_files"}

\* ------------------------------------------------------------------ C21
\* helpers: the time of the i-th record; a day-close record followed by a
\* record outside hour 14; a record at or after 03:01:00 and before 21:00:00;
\* the relabeling is active at record i when a day-close precedes it with no
\* such record in between; D is the date of that day-close record
TimeOfRecord(i) == hm_of(pipe.records[i].minute)
DayCloseBefore(k) ==
  /\ k > 1
  /\ TimeOfRecord(k - 1) \in DayCloseFrom..DayCloseTo
  /\ TimeOfRecord(k) \div 60 # 14
StartsNewDay(j) == TimeOfRecord(j) >= DayOpen /\ TimeOfRecord(j) < NightOpen
ActiveSince(i) ==
  {k \in 1..i : DayCloseBefore(k) /\ \A j \in k..(i - 1) : ~StartsNewDay(j)}
DayCloseDate(i) ==
  pipe.records[(CHOOSE k \in ActiveSince(i) : \A m \in ActiveSince(i) : m <= k) - 1].date
FirstWritten == pipe.i - Len(pipe.csv) + 1
Written(i) == pipe.csv[i - FirstWritten + 1]

\* C21: while the relabeling that a day-close record of date D started is
\* active, a record at or after 21:00:00 is written with date D, a record
\* before 03:00:00 with date D+1, and the first record at or after 03:01:00
\* with its own date; the records after that one keep their own date until the
\* next day-close.
C21_SessionRelabeling ==
  \A i \in 1..pipe.i :
    /\ ActiveSince(i) # {} =>
         /\ i >= FirstWritten
         /\ TimeOfRecord(i) >= NightOpen => Written(i).date = DayCloseDate(i)
         /\ TimeOfRecord(i) < NightEnd => Written(i).date = DayCloseDate(i) + 1
         /\ StartsNewDay(i) =>
              /\ Written(i).date = pipe.records[i].date
              /\ (i < pipe.i /\ ~DayCloseBefore(i + 1)) => ActiveSince(i + 1) = {}
    /\ (ActiveSince(i) = {} /\ i >= FirstWritten) =>
         Written(i).date = pipe.records[i].date

\* a night session written whole: after the day-close of date 1 the records
\* of trading date 3 at 21:00 and 02:59 are written with dates 1 and 2, the
\* record at 03:01 with its own date 3, and the relabeling is over
C21_Witness ==
  /\ pipe.i = 4
  /\ Len(pipe.csv) = 3
  /\ TimeOfRecord(1) = 899 /\ pipe.records[1].date = 1
  /\ TimeOfRecord(2) = 1260 /\ pipe.records[2].date = 3 /\ Written(2).date = 1
  /\ TimeOfRecord(3) = 179 /\ pipe.records[3].date = 3 /\ Written(3).date = 2
  /\ TimeOfRecord(4) = 181 /\ Written(4).date = 3
  /\ pipe.st.cover_codiction = 0

\* ------------------------------------------------------------------ C28
\* C28: every line written to the CSV carries the time and the values of the
\* record it was written for, a record stamped exactly 03:00:00 during the
\* relabeling included.
C28_LineIsOwnRecord ==
  \A i \in FirstWritten..pipe.i :
    /\ Written(i).hm = TimeOfRecord(i)
    /\ Written(i).value = pipe.records[i].value

\* ------------------------------------------------------------------ C29
\* helper: the task threads whose function has not returned
ExecutingTasks == {n \in 1..Len(pipe.tasks) : is_alive(pipe.tasks[n])}

\* C29: at most one task thread of the BacktesterEngine is executing at any
\* time, whatever the order of the start and stop calls of the UI thread and
\* the steps of the tasks.
C29_OneTaskAtATime == Cardinality(ExecutingTasks) <= 1

\* ------------------------------------------------------------------ C30
\* C30: once every task has ended the thread handle is cleared and
\* optimization_running is reset, so that the next start call is accepted,
\* without a stop_optimization call in between.
C30_EndedTaskFreesHandle ==
  (/\ pipe.tasks # <<>>
   /\ ExecutingTasks = {}
   /\ pipe.ui = "idle"
   /\ pipe.result.op # "stop")
  => (pipe.thread = None /\ ~pipe.optimization_running)
====
